---- MODULE Spec2Model ----
(***************************************************************************)
(* Conversation orchestration and lead-extraction pipeline of vani-ai.     *)
(*                                                                         *)
(* The module holds four state machines over one set of variables:         *)
(*   SpecPolicy  the turn policy computed by answer_query from the history *)
(*   SpecRetry   the generation retry loop of answer_query and its handler *)
(*   SpecStore   the conversation store and the handlers that write to it  *)
(*   SpecAgent   one tenant agent: reload against concurrent rendering     *)
(*   SpecLanguage  the language tag of answer_query                        *)
(*   SpecModel   _initialize_model under concurrent callers                *)
(*   SpecExtract the parsing of extract_lead_info                          *)
(*   SpecRows    the handlers of one session, one at a time, two tenants   *)
(*   SpecWebhook the correlation of an end-of-call report with a tenant    *)
(*   SpecTenant  ingestion, construction and rendering, one handler at a   *)
(*               time                                                      *)
(*   SpecRegistry  the agent registry under concurrent get_agent calls and *)
(*               delete_business                                           *)
(* Python None is the string "None"; a text is a tuple of one-character    *)
(* strings, so that substring and pattern searches are computed.           *)
(***************************************************************************)
EXTENDS Integers, Sequences, FiniteSets, TLC

None == "None"

(***************************************************************************)
(* Bounds                                                                  *)
(***************************************************************************)
MaxHist == 3
MaxReq == 2
MaxUploads == 2
MaxCalls == 2
MaxQuery == 2
MaxWorkers == 2
MaxInstances == 2
MaxResolvers == 2
MaxLines == 2
MaxTurns == 3
MaxTenants == 2

(***************************************************************************)
(* Texts                                                                   *)
(***************************************************************************)
TxtTenDigits == <<"a", "t", " ", "9", "8", "7", "6", "5", "4", "3", "2", "1", "0">>
TxtGrouped == <<"9", "8", "7", "-", "6", "5", "4", " ", "3", "2", "1", "0">>
TxtNineDigits == <<"9", "8", "7", "6", "5", "4", "3", "2", "1">>
TxtFiveFive == <<"9", "8", "7", "6", "5", " ", "4", "3", "2", "1", "0">>
TxtNamePhone == <<"N", "a", "m", "e", ",", " ", "P", "h", "o", "n", "e", "?">>
TxtNaamNumber == <<"n", "a", "a", "m", ",", " ", "n", "u", "m", "b", "e", "r", "?">>
TxtNaamPhone == <<"n", "a", "a", "m", ",", " ", "p", "h", "o", "n", "e", "?">>

Texts ==
  {TxtTenDigits, TxtGrouped, TxtNineDigits, TxtFiveFive,
   TxtNamePhone, TxtNaamNumber, TxtNaamPhone}

Roles == {"user", "assistant", "system"}

Messages == [role : Roles, text : Texts]

WordName == <<"n", "a", "m", "e">>
WordPhone == <<"p", "h", "o", "n", "e">>
WordNaam == <<"n", "a", "a", "m">>
WordNumber == <<"n", "u", "m", "b", "e", "r">>

Upper ==
  <<"A", "B", "C", "D", "E", "F", "G", "H", "I", "J", "K", "L", "M",
    "N", "O", "P", "Q", "R", "S", "T", "U", "V", "W", "X", "Y", "Z">>
LowerLetters ==
  <<"a", "b", "c", "d", "e", "f", "g", "h", "i", "j", "k", "l", "m",
    "n", "o", "p", "q", "r", "s", "t", "u", "v", "w", "x", "y", "z">>

\* str.lower() on one character
LowerChar(c) ==
  IF \E i \in 1..26 : Upper[i] = c
    THEN LowerLetters[CHOOSE i \in 1..26 : Upper[i] = c]
    ELSE c

\* str.lower()
Lower(s) == [i \in 1..Len(s) |-> LowerChar(s[i])]

\* w in s
Contains(s, w) ==
  \E i \in 1..(Len(s) - Len(w) + 1) : SubSeq(s, i, i + Len(w) - 1) = w

\* \d
IsDigit(c) == c \in {"0", "1", "2", "3", "4", "5", "6", "7", "8", "9"}

\* [-\s]
IsSeparator(c) == c \in {"-", " "}

\* \d{n} anchored at position i
DigitRun(s, i, n) ==
  /\ i + n - 1 <= Len(s)
  /\ \A j \in i..(i + n - 1) : IsDigit(s[j])

\* the pattern written with one digit too many
SearchTenDigits_Eleven(s) == \E i \in 1..Len(s) : DigitRun(s, i, 11)

\* re.search(r'\d{10}', s)
SearchTenDigits(s) == \E i \in 1..Len(s) : DigitRun(s, i, 10)

\* re.search(r'\d{3}[-\s]\d{3}[-\s]\d{4}', s)
SearchGroupedPhone(s) ==
  \E i \in 1..Len(s) :
    /\ i + 11 <= Len(s)
    /\ DigitRun(s, i, 3)
    /\ IsSeparator(s[i + 3])
    /\ DigitRun(s, i + 4, 3)
    /\ IsSeparator(s[i + 7])
    /\ DigitRun(s, i + 8, 4)

(***************************************************************************)
(* Turn policy of answer_query                                             *)
(***************************************************************************)
RECURSIVE CountUserTurns(_)
\* sum(1 for msg in conversation_history if msg.get('role') == 'user')
CountUserTurns(h) ==
  IF h = << >> THEN 0
  ELSE (IF Head(h).role = "user" THEN 1 ELSE 0) + CountUserTurns(Tail(h))

AskedForContact(h) ==
  \E i \in 1..Len(h) :
    /\ h[i].role = "assistant"
    /\ \/ Contains(Lower(h[i].text), WordName) /\ Contains(Lower(h[i].text), WordPhone)
       \/ Contains(Lower(h[i].text), WordNaam) /\ Contains(Lower(h[i].text), WordNumber)

ProvidedContact(h) ==
  \E i \in 1..Len(h) :
    /\ h[i].role = "user"
    /\ SearchTenDigits(h[i].text) \/ SearchGroupedPhone(h[i].text)

AskContact == "MUST ask for their name and phone number"
DontAskMissed == "DO NOT ask for name or phone number now"
DontAskHave == "DO NOT ask for name or phone number. We already have it or asked for it."

\* the window test written with < instead of <=
LeadCaptureInstruction_Strict(asked, provided, turn) ==
  IF ~asked /\ ~provided
    THEN (IF turn < 2 THEN AskContact ELSE DontAskMissed)
    ELSE DontAskHave

LeadCaptureInstruction(asked, provided, turn) ==
  IF ~asked /\ ~provided
    THEN (IF turn <= 2 THEN AskContact ELSE DontAskMissed)
    ELSE DontAskHave

Greet == "Greet the customer warmly."
DontGreet == "DO NOT greet the customer"

\* the greeting decided on the user turns instead of the length of the history
GreetingInstruction_UserTurns(h) == IF CountUserTurns(h) > 0 THEN DontGreet ELSE Greet

GreetingInstruction(h) == IF Len(h) > 0 THEN DontGreet ELSE Greet

(***************************************************************************)
(* Conversation store and the handlers that write to it                    *)
(***************************************************************************)
Requests == 1..MaxReq

SessionId == "s1"
BusinessId == "rainbow_default"

\* the business_id a request carries: the default one or another tenant's
BusinessIds == {BusinessId, "acme_motors"}

\* the message list a client sends with its r-th request: one entry per turn
ClientMessages(r) == [i \in 1..r |-> i]

NoLead ==
  [customer_name |-> None, customer_phone |-> None, summary |-> None,
   lead_classification |-> None]

\* extract_lead_info results: every line "Not provided" or absent, a full
\* lead, partial ones, one parsed from lines with nothing after the prefix,
\* and one whose CLASSIFICATION line carried another text than the four names
LeadInfos ==
  { NoLead,
    [customer_name |-> "Asha", customer_phone |-> "9876543210",
     summary |-> "asked about fees", lead_classification |-> "HOT_LEAD"],
    [customer_name |-> None, customer_phone |-> "9876543210",
     summary |-> None, lead_classification |-> "GENERAL_INQUIRY"],
    [customer_name |-> "Ravi", customer_phone |-> None,
     summary |-> "asked about timings", lead_classification |-> None],
    [customer_name |-> "", customer_phone |-> "",
     summary |-> "", lead_classification |-> ""],
    [customer_name |-> None, customer_phone |-> None,
     summary |-> "wrong number", lead_classification |-> "Not provided"] }

LeadFields == {"customer_name", "customer_phone", "summary", "lead_classification"}

\* if value:
Truthy(v) == v \notin {None, ""}

\* the column is set whatever the value
MergeField_Overwrite(old, v) == v

\* lines 81-95: the column is put in the UPDATE only if the value is truthy
MergeField(old, v) == IF Truthy(v) THEN v ELSE old

\* LeadsDatabase.create_conversation: the row INSERTed
NewRow(business_id) ==
  [business_id |-> business_id, messages |-> << >>, ended_at |-> None,
   customer_name |-> None, customer_phone |-> None, summary |-> None,
   lead_classification |-> None]

\* the row is replaced by the values of the call
UpdateConversation_Replace(d, sid, messages, lead, ended) ==
  IF sid \notin DOMAIN d THEN d
  ELSE [d EXCEPT ![sid] =
         [@ EXCEPT !.messages = messages,
                   !.customer_name = lead.customer_name,
                   !.customer_phone = lead.customer_phone,
                   !.summary = lead.summary,
                   !.lead_classification = lead.lead_classification,
                   !.ended_at = IF ended THEN "now" ELSE @]]

\* the save sets ended_at whatever the flag
UpdateConversation_AlwaysEnded(d, sid, messages, lead, ended) ==
  IF sid \notin DOMAIN d THEN d
  ELSE [d EXCEPT ![sid] =
         [@ EXCEPT !.messages = messages,
                   !.customer_name = IF Truthy(lead.customer_name) THEN lead.customer_name ELSE @,
                   !.customer_phone = IF Truthy(lead.customer_phone) THEN lead.customer_phone ELSE @,
                   !.summary = IF Truthy(lead.summary) THEN lead.summary ELSE @,
                   !.lead_classification =
                      IF Truthy(lead.lead_classification) THEN lead.lead_classification ELSE @,
                   !.ended_at = "now"]]

\* the UPDATE also puts the column default into business_id
UpdateConversation_Default(d, sid, messages, lead, ended) ==
  IF sid \notin DOMAIN d THEN d
  ELSE [d EXCEPT ![sid] =
         [@ EXCEPT !.messages = messages,
                   !.business_id = BusinessId,
                   !.customer_name = IF Truthy(lead.customer_name) THEN lead.customer_name ELSE @,
                   !.customer_phone = IF Truthy(lead.customer_phone) THEN lead.customer_phone ELSE @,
                   !.summary = IF Truthy(lead.summary) THEN lead.summary ELSE @,
                   !.lead_classification =
                      IF Truthy(lead.lead_classification) THEN lead.lead_classification ELSE @,
                   !.ended_at = IF ended THEN "now" ELSE @]]

\* LeadsDatabase.update_conversation: one UPDATE ... WHERE session_id = ?
UpdateConversation(d, sid, messages, lead, ended) ==
  IF sid \notin DOMAIN d THEN d
  ELSE [d EXCEPT ![sid] =
         [@ EXCEPT !.messages = messages,
                   !.customer_name = MergeField(@, lead.customer_name),
                   !.customer_phone = MergeField(@, lead.customer_phone),
                   !.summary = MergeField(@, lead.summary),
                   !.lead_classification = MergeField(@, lead.lead_classification),
                   !.ended_at = IF ended THEN "now" ELSE @]]

\* the handler waits for the thread it started
AfterStart_Join == "join"

\* app.py 407-410 and 1006-1017: thread.start() is followed by the return of
\* the response, nothing joins the thread
AfterStart == "done"

\* the failure of the task becomes the outcome of the request
AfterTaskFailure_Propagated(outcome) == "failed"

\* app.py 404-405 and 1003-1004: the except of the thread's function logs
\* the exception and the thread ends; the request keeps its outcome
AfterTaskFailure(outcome) == outcome

\* the message list a client of tenant business_id sends with its n-th turn
TenantMessages(n, business_id) == [i \in 1..n |-> [turn |-> i, by |-> business_id]]

\* LeadsDatabase.get_all_conversations: the rows of the tenant, all rows when
\* no business_id is given
GetAllConversations(d, business_id) ==
  {d[sid] : sid \in {x \in DOMAIN d : Truthy(business_id) => d[x].business_id = business_id}}

\* the thread saves the dictionary of query_transcripts.py 510-515
StoreAfterFailedExtraction_Fallback(d, sid, messages, ended) ==
  IF sid \notin DOMAIN d THEN d
  ELSE [d EXCEPT ![sid] =
         [@ EXCEPT !.messages = messages,
                   !.summary = "Error during analysis - conversation data preserved",
                   !.lead_classification = "UNRELATED",
                   !.ended_at = IF ended THEN "now" ELSE @]]

\* extract_lead_info raised (line 427, or NameError at line 507) and the
\* except of app.py 1003-1004 ended the thread before its
\* update_conversation: the table is as it was
StoreAfterFailedExtraction(d, sid, messages, ended) == d

IdleRequest ==
  [pc |-> "new", kind |-> None, messages |-> << >>, ended |-> FALSE]

IdleTask == [pc |-> "none", messages |-> << >>, lead_info |-> NoLead]

(***************************************************************************)
(* Generation with retries in answer_query                                 *)
(***************************************************************************)
Err429 ==
  <<"4", "2", "9", " ", "R", "E", "S", "O", "U", "R", "C", "E", "_", "E", "X", "H", "A", "U", "S", "T", "E", "D">>
Err503 ==
  <<"5", "0", "3", " ", "U", "N", "A", "V", "A", "I", "L", "A", "B", "L", "E">>
Err500 ==
  <<"5", "0", "0", " ", "I", "N", "T", "E", "R", "N", "A", "L">>
ErrQuota ==
  <<"Q", "u", "o", "t", "a", " ", "e", "x", "c", "e", "e", "d", "e", "d">>
ErrExhausted ==
  <<"R", "E", "S", "O", "U", "R", "C", "E", "_", "E", "X", "H", "A", "U", "S", "T", "E", "D">>
Err404 ==
  <<"4", "0", "4", " ", "N", "O", "T", "_", "F", "O", "U", "N", "D">>
\* response.text is None: 'NoneType' object has no attribute 'strip'
ErrNoText ==
  <<"n", "o", " ", "a", "t", "t", "r", "i", "b", "u", "t", "e", " ", "'", "s", "t", "r", "i", "p", "'">>
\* the exception of _initialize_model
ErrNoModel ==
  <<"N", "o", " ", "w", "o", "r", "k", "i", "n", "g", " ", "G", "e", "m", "i", "n", "i", " ",
    "m", "o", "d", "e", "l", " ", "f", "o", "u", "n", "d", ".", " ",
    "P", "l", "e", "a", "s", "e", " ", "c", "h", "e", "c", "k", " ", "y", "o", "u", "r", " ",
    "A", "P", "I", " ", "k", "e", "y", " ", "a", "n", "d", " ", "q", "u", "o", "t", "a", ".">>

\* what one generate_content call followed by response.text.strip() can raise
GenerationErrors == {Err429, Err503, Err500, ErrQuota, ErrExhausted, Err404, ErrNoText}

\* the attempt returned an answer
Ok == <<"o", "k">>

\* None in a variable that holds an exception
NoError == << >>

Word429 == <<"4", "2", "9">>
Word503 == <<"5", "0", "3">>
Word500 == <<"5", "0", "0">>
WordQuota == <<"q", "u", "o", "t", "a">>

\* every error is retried
IsTransient_Any(error_str) == TRUE

\* line 387
IsTransient(error_str) ==
  \/ Contains(error_str, Word429)
  \/ Contains(error_str, Word503)
  \/ Contains(error_str, Word500)
  \/ Contains(Lower(error_str), WordQuota)

max_retries == 3

\* one attempt too many
MoreAttempts_OffByOne(a) == a <= max_retries

\* for attempt in range(max_retries)
MoreAttempts(a) == a < max_retries

\* the first error is kept
RecordError_KeepFirst(last, e) == IF last = NoError THEN e ELSE last

\* last_error = loop_e
RecordError(last, e) == e

models_to_try ==
  <<"gemini-2.0-flash-exp", "gemini-1.5-flash", "gemini-1.5-pro", "gemini-1.5-flash-8b",
    "gemini-1.0-pro">>

RECURSIVE ProbeFrom(_, _)
\* the loop of _initialize_model from position i, over the set of identifiers
\* whose test call succeeds
ProbeFrom(i, working) ==
  IF i > Len(models_to_try) THEN None
  ELSE IF models_to_try[i] \in working THEN models_to_try[i]
  ELSE ProbeFrom(i + 1, working)

NameError == "NameError: name 'logger' is not defined"

ModelIds == {models_to_try[i] : i \in 1..Len(models_to_try)}

(***************************************************************************)
(* One tenant agent: grounding source, reload and rendering                *)
(***************************************************************************)
Uploads == 1..MaxUploads
Calls == 1..MaxCalls

\* knowledge_base.json: absent (or unreadable), the JSON object {}, or a
\* knowledge base with business_info and qa_pairs
KBEmpty == "{}"
KB1 == "kb1"

\* business_config.json, and self.config = {}
ConfigEmpty == "{}"
Config1 == "cfg1"

\* if self.knowledge_base:
KBTruthy(kb) == kb \notin {None, KBEmpty}

\* self.cached_context = None
NoContext == [kind |-> "None", n |-> 0]

\* lines 148-165: the text built from the knowledge base
RenderKB(kb) == [kind |-> "kb", n |-> 0]

\* line 170
NoTranscripts == [kind |-> "No transcripts available.", n |-> 0]

\* lines 172-194: the text built from the n transcripts loaded
RenderTranscripts(n) == [kind |-> "transcripts", n |-> n]

\* line 112
AfterReloadCache(cache) == NoContext

\* kb_before: self.knowledge_base as line 99 found it, while the reload is
\* between lines 99 and 104
IdleUpload == [pc |-> "new", loaded |-> 0, kb_before |-> None]

IdleCall == [pc |-> "new", ctx |-> NoContext, ret |-> NoContext, floor |-> 0]

(***************************************************************************)
(* The language of a query and of an answer                                *)
(***************************************************************************)
\* a query or an answer is a tuple of code points: A, U+08FF, U+0900, U+097F,
\* U+0980 (Bengali) and U+0C95 (Kannada)
CodePoints == {65, 2303, 2304, 2431, 2432, 3221}

RECURSIVE StringsUpTo(_)
StringsUpTo(n) ==
  IF n = 0 THEN {<< >>}
  ELSE LET shorter == StringsUpTo(n - 1)
       IN shorter \cup {Append(s, c) : s \in {t \in shorter : Len(t) = n - 1}, c \in CodePoints}

Queries == StringsUpTo(MaxQuery)

\* the language argument of answer_query: absent, or a string
Languages == {None, "Hindi", "English", "Kannada"}

\* any('\u0900' <= c <= '\u097F' for c in s)
HasDevanagari(s) == \E i \in 1..Len(s) : 2304 <= s[i] /\ s[i] <= 2431

\* _detect_query_language looking at the first character only
DetectQueryLanguage_FirstChar(q) ==
  IF Len(q) > 0 /\ 2304 <= q[1] /\ q[1] <= 2431 THEN "Hindi" ELSE "English"

\* _detect_query_language
DetectQueryLanguage(q) == IF HasDevanagari(q) THEN "Hindi" ELSE "English"

\* lines 370-372: the tag computed from the answer
FinalLanguage(answer) == IF HasDevanagari(answer) THEN "Hindi" ELSE "English"

\* a key the returned dictionary does not have; the value of a call that
\* returned no dictionary
Absent == "<absent>"

\* lines 242-246: the dictionary returned without a source
NoSourceResult ==
  [query_language |-> Absent, error |-> "No transcripts or KB loaded",
   answer |-> "No information available."]

\* lines 374-381; the answer is the text the model generated
AnswerResult(answer) ==
  [query_language |-> FinalLanguage(answer), error |-> Absent, answer |-> "generated"]

NoResult == [query_language |-> Absent, error |-> Absent, answer |-> Absent]

(***************************************************************************)
(* The agent registry, and the agent as a whole handler leaves it          *)
(***************************************************************************)
Workers == 1..MaxWorkers

\* business_id not in agents
NotCached == 0

\* if self.cached_context: with a test that never finds the cache
CacheHit_Never(cache) == FALSE

\* if self.cached_context:
CacheHit(cache) == cache # NoContext

\* the fields __init__ (lines 50-82) and reload (lines 89-112) leave behind
LoadedAgent(dkb, dtr) ==
  [config |-> Config1, knowledge_base |-> dkb, transcripts |-> dtr,
   cached_context |-> NoContext]

\* _get_transcript_context as one call: the text returned, the cache it
\* leaves, and whether lines 148-165 or 172-194 ran
RenderOutcome(kb, tr, cache) ==
  IF CacheHit(cache) THEN [ret |-> cache, cache |-> cache, built |-> FALSE]
  ELSE IF KBTruthy(kb) THEN [ret |-> RenderKB(kb), cache |-> RenderKB(kb), built |-> TRUE]
  ELSE IF tr = 0 THEN [ret |-> NoTranscripts, cache |-> cache, built |-> FALSE]
  ELSE [ret |-> RenderTranscripts(tr), cache |-> RenderTranscripts(tr), built |-> TRUE]

\* the last two calls
LastTwo(s) == IF Len(s) > 2 THEN Tail(s) ELSE s

\* get_agent, lines 795-797, writing a marker of the failure to the registry
RegistryAfterFailure_Cached(a) == 0 - 1

\* get_agent, lines 795-797: the registry is not written
RegistryAfterFailure(a) == a

\* answer_query, line 241, with a test that never finds the agent empty
NoSource_Never(tr, kb) == FALSE

\* answer_query, line 241: not self.transcripts and not self.knowledge_base
NoSource(tr, kb) == tr = 0 /\ ~KBTruthy(kb)

\* line 244
NoInformation ==
  "No information available. Please upload recordings or documents to build the knowledge base."

\* what one call of answer_query handed back: llm tells whether a probe or a
\* generation call was made, raised whether an exception left the call
NoAnswer == [answer |-> Absent, error |-> Absent, llm |-> FALSE, raised |-> FALSE]

\* lines 242-246
NoSourceAnswer ==
  [answer |-> NoInformation, error |-> "No transcripts or KB loaded", llm |-> FALSE,
   raised |-> FALSE]

\* lines 374-381
GeneratedAnswer == [answer |-> "answer", error |-> Absent, llm |-> TRUE, raised |-> FALSE]

\* lines 398-400: the handler is left by NameError
FailedAnswer == [answer |-> Absent, error |-> Absent, llm |-> TRUE, raised |-> TRUE]

\* the tenant directories of businesses/
HookTenants == 1..MaxTenants

AssistantIds == {"asst_1", "asst_2"}

\* vapi_assistant_id of a business_config.json: an identifier, None when the
\* key is missing, Absent when the tenant has no configuration file
StoredAssistantIds == AssistantIds \cup {None, Absent}

\* the orders in which iterdir() may list the tenant directories
ScanOrders ==
  {o \in [1..MaxTenants -> HookTenants] : \A i, j \in 1..MaxTenants : o[i] = o[j] => i = j}

\* every configuration file matches
ConfigMatches_Any(stored, assistant_id) == stored # Absent

\* lines 335-340: path.exists() and cfg.get('vapi_assistant_id') == assistant_id
ConfigMatches(stored, assistant_id) == stored # Absent /\ stored = assistant_id

\* lines 329-345: the first tenant in scan order whose configuration
\* matches, 0 when there is none
RECURSIVE FindBusiness(_, _, _)
FindBusiness(configs, order, assistant_id) ==
  IF order = << >> THEN 0
  ELSE IF ConfigMatches(configs[Head(order)], assistant_id) THEN Head(order)
  ELSE FindBusiness(configs, Tail(order), assistant_id)

IdleHook ==
  [pc |-> "idle", assistant_id |-> None, sms |-> FALSE, triggered |-> 0, status |-> 0]

\* lines 304-367: what the handler does for a message
WebhookOutcome(configs, order, type_, assistant_id, caller_number, call_id) ==
  LET business == IF type_ = "end-of-call-report" /\ Truthy(assistant_id)
                    THEN FindBusiness(configs, order, assistant_id)
                    ELSE 0
  IN [pc |-> "answered",
      assistant_id |-> assistant_id,
      sms |-> business # 0 /\ Truthy(caller_number),
      triggered |-> IF business # 0 /\ Truthy(call_id) THEN business ELSE 0,
      status |-> 200]

\* a line of the model's answer is a sequence of pieces of text; the lines
\* the parser is tried on: the four fields, the sentinel, trailing and
\* leading blanks, and a line with no prefix
ModelLines ==
  { <<"NAME:", " ", "Asha">>,
    <<"NAME:", " ", "Not provided">>,
    <<"PHONE:", " ", "9876543210">>,
    <<"SUMMARY:", " ", "Wants a quote", " ">>,
    <<"CLASSIFICATION:", " ", "HOT_LEAD">>,
    <<"CLASSIFICATION:", " ", "Not provided">>,
    <<"Here is the analysis">>,
    <<" ", "PHONE:", " ", "Not provided">> }

\* response.text: up to MaxLines lines
ModelOutputs == UNION {[1..n -> ModelLines] : n \in 0..MaxLines}

\* str.startswith
StartsWith(line, prefix) == Len(line) >= 1 /\ line[1] = prefix

\* str.replace(prefix, ""): every occurrence goes
Replace(line, prefix) == SelectSeq(line, LAMBDA piece : piece # prefix)

RECURSIVE LStrip(_)
LStrip(line) ==
  IF line # << >> /\ Head(line) = " " THEN LStrip(Tail(line)) ELSE line

RECURSIVE RStrip(_)
RStrip(line) ==
  IF line # << >> /\ line[Len(line)] = " "
    THEN RStrip(SubSeq(line, 1, Len(line) - 1))
    ELSE line

\* str.strip
Strip(line) == RStrip(LStrip(line))

\* the text of a line as one string
RECURSIVE Join(_)
Join(line) == IF line = << >> THEN "" ELSE Head(line) \o Join(Tail(line))

\* line 476 and line 479: response.text.strip().split('\n'); the blanks at
\* the start of the first line and at the end of the last one are gone
SplitLines(text) ==
  [k \in DOMAIN text |->
     LET l == IF k = 1 THEN LStrip(text[k]) ELSE text[k]
     IN IF k = Len(text) THEN RStrip(l) ELSE l]

\* line.replace(prefix, "").strip()
FieldValue(line, prefix) == Join(Strip(Replace(line, prefix)))

\* lines 489, 492, 495: value if value != "Not provided" else None
NotProvided(value) == IF value # "Not provided" THEN value ELSE None

\* lines 480-485
NoExtraction ==
  [customer_name |-> None, customer_phone |-> None, summary |-> None,
   lead_classification |-> None]

\* lines 420-424: the dictionary returned for an empty conversation
EmptyExtraction ==
  [customer_name |-> None, customer_phone |-> None, summary |-> "No conversation data",
   lead_classification |-> Absent]

\* the body of the loop, lines 488-501
ParseLine(extracted, line) ==
  IF StartsWith(line, "NAME:")
    THEN [extracted EXCEPT !.customer_name = NotProvided(FieldValue(line, "NAME:"))]
  ELSE IF StartsWith(line, "PHONE:")
    THEN [extracted EXCEPT !.customer_phone = NotProvided(FieldValue(line, "PHONE:"))]
  ELSE IF StartsWith(line, "SUMMARY:")
    THEN [extracted EXCEPT !.summary = NotProvided(FieldValue(line, "SUMMARY:"))]
  ELSE IF StartsWith(line, "CLASSIFICATION:")
    THEN [extracted EXCEPT !.lead_classification = FieldValue(line, "CLASSIFICATION:")]
  ELSE extracted

\* lines 487-503
RECURSIVE ParseFrom(_, _)
ParseFrom(extracted, lines) ==
  IF lines = << >> THEN extracted
  ELSE ParseFrom(ParseLine(extracted, Head(lines)), Tail(lines))

\* lines 476-503
ParseResponse(text) == ParseFrom(NoExtraction, SplitLines(text))

\* the threads that call _initialize_model on one agent
Resolvers == 1..MaxResolvers

\* the loop of line 214 goes on with a candidate further down the list
NextCandidate_Skip(i) == i + 2

\* the loop of line 214 goes on with the next candidate: lines 224-229
NextCandidate(i) == i + 1

\* probed: the test calls of this resolution, in order, with their outcome;
\* memo: self.model_name as line 210 found it
IdleResolver == [pc |-> "idle", i |-> 0, probed |-> << >>, ret |-> None, memo |-> None]

IdleWorker ==
  [pc |-> "idle", inst |-> 0, ret |-> 0, outcome |-> "None", nodir |-> FALSE,
   after_failure |-> FALSE]

(***************************************************************************)
(* State                                                                   *)
(***************************************************************************)
VARIABLES
  conversation_history,      \* the history handed to answer_query
  policy_pc,                 \* "idle" | "answered"
  current_turn,
  lead_capture_instruction,
  greeting_instruction

policyVars ==
  <<conversation_history, policy_pc, current_turn, lead_capture_instruction,
    greeting_instruction>>

VARIABLES
  model_name,                \* self.model_name, the memoized model identifier
  aq_pc,                     \* "idle" | "generate" | "handler" | "returned" | "raised"
  attempt,                   \* the loop variable of range(max_retries)
  last_error,
  attempt_log,               \* outcome of every generate_content call of this call
  caught,                    \* the exception bound to e at line 398
  result,                    \* the dictionary returned, its "error" key
  escaped                    \* the exception that leaves answer_query

retryVars ==
  <<model_name, aq_pc, attempt, last_error, attempt_log, caught, result, escaped>>

VARIABLES
  db,                        \* table conversations: session_id -> row
  req,                       \* the request handlers, one per request
  task,                      \* the extraction thread each request started
  latest_saved               \* the message list of the latest synchronous save

storeVars == <<db, req, task, latest_saved>>

VARIABLES
  disk_kb,                   \* businesses/<id>/knowledge_base.json
  disk_transcripts,          \* number of files transcripts/*_gemini_*.json
  config,                    \* self.config
  knowledge_base,            \* self.knowledge_base
  transcripts,               \* self.transcripts, as the number of documents loaded
  cached_context,            \* self.cached_context
  upload,                    \* the upload_transcripts handlers
  call,                      \* the calls of _get_transcript_context
  reloaded                   \* documents loaded by the reloads that have returned

agentVars ==
  <<disk_kb, disk_transcripts, config, knowledge_base, transcripts, cached_context,
    upload, call, reloaded>>

VARIABLES
  lang_pc,                   \* "idle" | "detected" | "handler" | "returned" | "raised"
  query,
  language,                  \* the language argument
  heuristic_lang,
  lang_result,               \* the dictionary answer_query returned
  lang_escaped               \* the exception that leaves answer_query

langVars == <<lang_pc, query, language, heuristic_lang, lang_result, lang_escaped>>

VARIABLES
  agents,                    \* agents[business_id]: NotCached or the instance held
  biz_dir,                   \* businesses/<id> exists
  created,                   \* instances of TranscriptQueryAgent constructed so far
  worker,                    \* the threads calling get_agent
  del_pc,                    \* delete_business: "idle" | "evict"
  evicted,                   \* a delete has completed and no onboarding followed
  since_evict,               \* instances constructed since the last eviction
  failed_once                \* a construction has failed

registryVars ==
  <<agents, biz_dir, created, worker, del_pc, evicted, since_evict, failed_once>>

VARIABLES
  ex_pc,                     \* where the call of extract_lead_info stands
  result_text,               \* response.text, as lines
  extracted,                 \* the dictionary extract_lead_info returned
  ex_escaped                 \* the exception that left extract_lead_info

extractVars == <<ex_pc, result_text, extracted, ex_escaped>>

VARIABLES
  served                     \* the handlers served so far for the session

rowVars == <<served>>

VARIABLES
  hook_configs,              \* tenant directory -> the stored assistant identifier
  hook                       \* what vapi_webhook_handler did for the last message

hookVars == <<hook_configs, hook>>

VARIABLES
  resolver                   \* the calls of _initialize_model

modelVars == <<resolver>>

VARIABLES
  ingested,                  \* documents written to transcripts/ by uploads
  renders,                   \* the last calls of _get_transcript_context since
                             \* the agent was constructed or reloaded
  last_answer                \* the last call of answer_query since then

tenantVars == <<ingested, renders, last_answer>>

vars ==
  <<policyVars, retryVars, storeVars, agentVars, langVars, registryVars, tenantVars,
    modelVars, extractVars, rowVars,
    hookVars>>

notPolicy ==
  <<retryVars, storeVars, agentVars, langVars, registryVars,
    tenantVars, modelVars, extractVars, rowVars,
    hookVars>>
notRetry ==
  <<policyVars, storeVars, agentVars, langVars, registryVars,
    tenantVars, modelVars, extractVars, rowVars,
    hookVars>>
notStore ==
  <<policyVars, retryVars, agentVars, langVars, registryVars,
    tenantVars, modelVars, extractVars, rowVars,
    hookVars>>
notAgent ==
  <<policyVars, retryVars, storeVars, langVars, registryVars,
    tenantVars, modelVars, extractVars, rowVars,
    hookVars>>
notLang ==
  <<policyVars, retryVars, storeVars, agentVars, registryVars,
    tenantVars, modelVars, extractVars, rowVars,
    hookVars>>
notRegistry ==
  <<policyVars, retryVars, storeVars, agentVars, langVars,
    tenantVars, modelVars, extractVars, rowVars,
    hookVars>>
notTenant == <<policyVars, retryVars, storeVars, langVars, modelVars, extractVars, rowVars,
    hookVars>>
notModel ==
  <<policyVars, storeVars, agentVars, langVars, registryVars, tenantVars, extractVars, rowVars,
    hookVars>>
notExtract ==
  <<policyVars, retryVars, storeVars, agentVars, langVars, registryVars, tenantVars,
    modelVars, rowVars, hookVars>>
notRow ==
  <<policyVars, retryVars, agentVars, langVars, registryVars, tenantVars, modelVars,
    extractVars, hookVars>>
notHook ==
  <<policyVars, retryVars, storeVars, agentVars, langVars, registryVars, tenantVars,
    modelVars, extractVars, rowVars>>

\* the state after the process has started: no call in progress, and an agent
\* as __init__ leaves it
Init ==
  /\ conversation_history = << >>
  /\ policy_pc = "idle"
  /\ current_turn = 0
  /\ lead_capture_instruction = None
  /\ greeting_instruction = None
  /\ model_name = None
  /\ aq_pc = "idle"
  /\ attempt = 0
  /\ last_error = NoError
  /\ attempt_log = << >>
  /\ caught = NoError
  /\ result = None
  /\ escaped = None
  /\ db = << >>
  /\ req = [r \in Requests |-> IdleRequest]
  /\ task = [r \in Requests |-> IdleTask]
  /\ latest_saved = << >>
  /\ disk_kb = None
  /\ disk_transcripts = 0
  /\ config = Config1
  /\ knowledge_base = None
  /\ transcripts = 0
  /\ cached_context = NoContext
  /\ upload = [u \in Uploads |-> IdleUpload]
  /\ call = [c \in Calls |-> IdleCall]
  /\ reloaded = 0
  /\ lang_pc = "idle"
  /\ query = << >>
  /\ language = None
  /\ heuristic_lang = None
  /\ lang_result = NoResult
  /\ lang_escaped = None
  /\ agents = NotCached
  /\ biz_dir = TRUE
  /\ created = 0
  /\ worker = [w \in Workers |-> IdleWorker]
  /\ del_pc = "idle"
  /\ evicted = FALSE
  /\ since_evict = 0
  /\ failed_once = FALSE
  /\ ingested = 0
  /\ renders = << >>
  /\ last_answer = NoAnswer
  /\ resolver = [t \in Resolvers |-> IdleResolver]
  /\ ex_pc = "idle"
  /\ result_text = << >>
  /\ extracted = NoExtraction
  /\ ex_escaped = None
  /\ served = 0
  /\ hook_configs = [t \in HookTenants |-> Absent]
  /\ hook = IdleHook

(***************************************************************************)
(* The turn policy: actions                                                *)
(***************************************************************************)
\* answer_query, the instruction bundle of one turn
PolicyStep ==
  /\ policy_pc = "idle"
  /\ current_turn' = CountUserTurns(conversation_history) + 1
  /\ lead_capture_instruction' =
       LeadCaptureInstruction(AskedForContact(conversation_history),
                              ProvidedContact(conversation_history),
                              CountUserTurns(conversation_history) + 1)
  /\ greeting_instruction' = GreetingInstruction(conversation_history)
  /\ policy_pc' = "answered"
  /\ UNCHANGED conversation_history
  /\ UNCHANGED notPolicy

\* the caller appends one message to the history it sends with the next query
AppendMessage(m) ==
  /\ Len(conversation_history) < MaxHist
  /\ conversation_history' = Append(conversation_history, m)
  /\ policy_pc' = "idle"
  /\ current_turn' = 0
  /\ lead_capture_instruction' = None
  /\ greeting_instruction' = None
  /\ UNCHANGED notPolicy

AppendAny == \E m \in Messages : AppendMessage(m)

PolicyNext == PolicyStep \/ AppendAny


SpecPolicy == Init /\ [][PolicyNext]_vars

(***************************************************************************)
(* The conversation store: actions                                         *)
(***************************************************************************)
\* a request reaches save_conversation, handle_query, vapi_chat_handler or
\* vapi_webhook_handler; requests arrive in order and may overlap
ReqArrive(r, kind, ended) ==
  /\ req[r].pc = "new"
  /\ r > 1 => req[r - 1].pc # "new"
  /\ kind # "save" => ~ended
  /\ req' = [req EXCEPT ![r] =
       [pc |-> "get", kind |-> kind, messages |-> ClientMessages(r), ended |-> ended]]
  /\ UNCHANGED <<db, task, latest_saved>>
  /\ UNCHANGED notStore

\* handle_query: answer_query raised, the handler answers 500 before any save
AskFails(r) ==
  /\ req[r].pc = "get"
  /\ req[r].kind = "ask"
  /\ req' = [req EXCEPT ![r].pc = "failed"]
  /\ UNCHANGED <<db, task, latest_saved>>
  /\ UNCHANGED notStore

\* vapi_webhook_handler, lines 308-367, on an end-of-call-report of a known
\* assistant: no access to the store, trigger_lead_extraction, then 200
ReqWebhook(r) ==
  /\ req[r].pc = "get"
  /\ req[r].kind = "webhook"
  /\ req' = [req EXCEPT ![r].pc = AfterStart]
  /\ task' = [task EXCEPT ![r] = [pc |-> "read", messages |-> << >>, lead_info |-> NoLead]]
  /\ UNCHANGED <<db, latest_saved>>
  /\ UNCHANGED notStore

\* db.get_conversation(session_id)
ReqGet(r) ==
  /\ req[r].pc = "get"
  /\ req[r].kind # "webhook"
  /\ req' = [req EXCEPT ![r].pc = IF SessionId \in DOMAIN db THEN "update" ELSE "create"]
  /\ UNCHANGED <<db, task, latest_saved>>
  /\ UNCHANGED notStore

\* db.create_conversation: session_id is UNIQUE, a second INSERT raises and
\* the handler's except ends the processing
ReqCreate(r) ==
  /\ req[r].pc = "create"
  /\ IF SessionId \in DOMAIN db
       THEN /\ req' = [req EXCEPT ![r].pc = "failed"]
            /\ UNCHANGED db
       ELSE /\ db' = [s \in {SessionId} |-> NewRow(BusinessId)]
            /\ req' = [req EXCEPT ![r].pc = "update"]
  /\ UNCHANGED <<task, latest_saved>>
  /\ UNCHANGED notStore

\* the synchronous save of the handler and what follows it:
\*   save_conversation starts extract_and_update_lead and returns;
\*   handle_query calls trigger_lead_extraction and returns;
\*   vapi_chat_handler goes on to answer_query(..., caller_name=...), which
\*   raises TypeError, and answers 500
ReqUpdate(r) ==
  /\ req[r].pc = "update"
  /\ db' = UpdateConversation(db, SessionId, req[r].messages, NoLead, req[r].ended)
  /\ latest_saved' = req[r].messages
  /\ req' = [req EXCEPT ![r].pc = IF req[r].kind = "vapi" THEN "failed" ELSE AfterStart]
  /\ task' = [task EXCEPT ![r] =
       IF req[r].kind = "save"
         THEN [pc |-> "extract", messages |-> req[r].messages, lead_info |-> NoLead]
       ELSE IF req[r].kind = "ask"
         THEN [pc |-> "read", messages |-> << >>, lead_info |-> NoLead]
       ELSE @]
  /\ UNCHANGED notStore

\* extract_and_update_lead: get_agent returned None, or extract_lead_info
\* raised; the thread logs and ends
TaskExtractFails(r) ==
  /\ task[r].pc = "extract"
  /\ task' = [task EXCEPT ![r].pc = "failed"]
  /\ req' = [req EXCEPT ![r].pc = AfterTaskFailure(@)]
  /\ db' = StoreAfterFailedExtraction(db, SessionId, task[r].messages, req[r].ended)
  /\ UNCHANGED latest_saved
  /\ UNCHANGED notStore

\* extract_and_update_lead: agent.extract_lead_info(messages) returned
TaskExtract(r, lead) ==
  /\ task[r].pc = "extract"
  /\ task' = [task EXCEPT ![r].pc = "write", ![r].lead_info = lead]
  /\ UNCHANGED <<db, req, latest_saved>>
  /\ UNCHANGED notStore

\* extract_and_update_lead: db.update_conversation with the messages of the
\* request and the extracted fields
TaskWrite(r) ==
  /\ task[r].pc = "write"
  /\ db' = UpdateConversation(db, SessionId, task[r].messages, task[r].lead_info,
                              req[r].ended)
  /\ task' = [task EXCEPT ![r].pc = "done"]
  /\ UNCHANGED <<req, latest_saved>>
  /\ UNCHANGED notStore

\* extract_lead_worker: conv = db.get_conversation(sid), messages read from it
WorkerRead(r) ==
  /\ task[r].pc = "read"
  /\ task' = [task EXCEPT
       ![r].pc = IF SessionId \in DOMAIN db /\ db[SessionId].messages # << >>
                   THEN "call" ELSE "done",
       ![r].messages = IF SessionId \in DOMAIN db THEN db[SessionId].messages ELSE << >>]
  /\ UNCHANGED <<db, req, latest_saved>>
  /\ UNCHANGED notStore

\* extract_lead_worker: get_agent, then extract_lead_info(messages,
\* caller_number=num): the method takes no caller_number, the call raises
\* TypeError and the except of line 404 ends the thread; line 393 is not reached
WorkerCall(r) ==
  /\ task[r].pc = "call"
  /\ task' = [task EXCEPT ![r].pc = "failed"]
  /\ req' = [req EXCEPT ![r].pc = AfterTaskFailure(@)]
  /\ UNCHANGED <<db, latest_saved>>
  /\ UNCHANGED notStore

SomeReqArrive ==
  \E r \in Requests, kind \in {"save", "ask", "vapi", "webhook"}, ended \in BOOLEAN :
    ReqArrive(r, kind, ended)
SomeReqWebhook == \E r \in Requests : ReqWebhook(r)
SomeAskFails == \E r \in Requests : AskFails(r)
SomeReqGet == \E r \in Requests : ReqGet(r)
SomeReqCreate == \E r \in Requests : ReqCreate(r)
SomeReqUpdate == \E r \in Requests : ReqUpdate(r)
SomeTaskExtractFails == \E r \in Requests : TaskExtractFails(r)
SomeTaskExtract == \E r \in Requests, lead \in LeadInfos : TaskExtract(r, lead)
SomeTaskWrite == \E r \in Requests : TaskWrite(r)
SomeWorkerRead == \E r \in Requests : WorkerRead(r)
SomeWorkerCall == \E r \in Requests : WorkerCall(r)

StoreNext ==
  \/ SomeReqArrive
  \/ SomeAskFails
  \/ SomeReqWebhook
  \/ SomeReqGet
  \/ SomeReqCreate
  \/ SomeReqUpdate
  \/ SomeTaskExtractFails
  \/ SomeTaskExtract
  \/ SomeTaskWrite
  \/ SomeWorkerRead
  \/ SomeWorkerCall

SpecStore == Init /\ [][StoreNext]_vars

\* every handler and every started thread runs on: the server serves each
\* request in a thread of its own and Python schedules every thread
SpecStoreLive == Init /\ [][StoreNext]_vars /\ WF_vars(StoreNext)


(***************************************************************************)
(* The retry loop: actions                                                 *)
(***************************************************************************)
\* answer_query up to the retry loop: _initialize_model returns the memoized
\* identifier, or probes the candidates in order; with none working it raises
\* into the handler of line 398
AqInitializeModel(working) ==
  /\ aq_pc = "idle"
  /\ LET resolved == IF model_name # None THEN model_name ELSE ProbeFrom(1, working)
     IN /\ model_name' = resolved
        /\ IF resolved = None
             THEN aq_pc' = "handler" /\ caught' = ErrNoModel
             ELSE aq_pc' = "generate" /\ caught' = NoError
  /\ attempt' = 0
  /\ last_error' = NoError
  /\ attempt_log' = << >>
  /\ result' = None
  /\ escaped' = None
  /\ UNCHANGED notRetry

AqStart == \E working \in SUBSET ModelIds : AqInitializeModel(working)

\* one pass of the loop body whose generate_content call succeeds: line 374
AqAttemptSucceeds ==
  /\ aq_pc = "generate"
  /\ MoreAttempts(attempt)
  /\ attempt_log' = Append(attempt_log, Ok)
  /\ result' = "answer"
  /\ aq_pc' = "returned"
  /\ UNCHANGED <<model_name, attempt, last_error, caught, escaped>>
  /\ UNCHANGED notRetry

\* one pass of the loop body whose call raises loop_e: lines 383-392
AqAttemptFails(loop_e) ==
  /\ aq_pc = "generate"
  /\ MoreAttempts(attempt)
  /\ attempt_log' = Append(attempt_log, loop_e)
  /\ last_error' = RecordError(last_error, loop_e)
  /\ IF IsTransient(loop_e)
       THEN /\ attempt' = attempt + 1
            /\ UNCHANGED <<aq_pc, caught>>
       ELSE /\ aq_pc' = "handler"
            /\ caught' = loop_e
            /\ UNCHANGED attempt
  /\ UNCHANGED <<model_name, result, escaped>>
  /\ UNCHANGED notRetry

AqAttemptFailsAny == \E loop_e \in GenerationErrors : AqAttemptFails(loop_e)

\* the loop is exhausted: lines 395-396
AqRaiseLast ==
  /\ aq_pc = "generate"
  /\ ~MoreAttempts(attempt)
  /\ IF last_error # NoError
       THEN aq_pc' = "handler" /\ caught' = last_error /\ UNCHANGED result
       ELSE aq_pc' = "returned" /\ UNCHANGED <<caught, result>>
  /\ UNCHANGED <<model_name, attempt, last_error, attempt_log, escaped>>
  /\ UNCHANGED notRetry

\* the handler of line 398: logger is not a name of query_transcripts.py, so
\* line 400 raises NameError and nothing after it runs
AqHandler ==
  /\ aq_pc = "handler"
  /\ escaped' = NameError
  /\ aq_pc' = "raised"
  /\ UNCHANGED <<model_name, attempt, last_error, attempt_log, caught, result>>
  /\ UNCHANGED notRetry

\* the call is over; its locals are gone, the agent keeps model_name
AqEnd ==
  /\ aq_pc \in {"returned", "raised"}
  /\ aq_pc' = "idle"
  /\ attempt' = 0
  /\ last_error' = NoError
  /\ attempt_log' = << >>
  /\ caught' = NoError
  /\ result' = None
  /\ escaped' = None
  /\ UNCHANGED model_name
  /\ UNCHANGED notRetry

RetryNext ==
  \/ AqStart
  \/ AqAttemptSucceeds
  \/ AqAttemptFailsAny
  \/ AqRaiseLast
  \/ AqHandler
  \/ AqEnd

SpecRetry == Init /\ [][RetryNext]_vars


(***************************************************************************)
(* The tenant agent: actions                                               *)
(***************************************************************************)
\* extract_knowledge_base, started by setup_business: knowledge_base.json is
\* written; nothing is told to the agent
KbExtracted(kb) ==
  /\ disk_kb # kb
  /\ disk_kb' = kb
  /\ UNCHANGED <<disk_transcripts, config, knowledge_base, transcripts, cached_context,
                 upload, call, reloaded>>
  /\ UNCHANGED notAgent

\* upload_transcripts, lines 653-696: the files are processed and written;
\* matched tells whether a file was written whose name _load_transcripts globs
UploadWrite(u, matched) ==
  /\ upload[u].pc = "new"
  /\ u > 1 => upload[u - 1].pc # "new"
  /\ disk_transcripts' = IF matched THEN disk_transcripts + 1 ELSE disk_transcripts
  /\ upload' = [upload EXCEPT ![u].pc = "r_config_clear"]
  /\ UNCHANGED <<disk_kb, config, knowledge_base, transcripts, cached_context, call,
                 reloaded>>
  /\ UNCHANGED notAgent

\* reload, line 89
ReloadConfigClear(u) ==
  /\ upload[u].pc = "r_config_clear"
  /\ config' = ConfigEmpty
  /\ upload' = [upload EXCEPT ![u].pc = "r_config_load"]
  /\ UNCHANGED <<disk_kb, disk_transcripts, knowledge_base, transcripts, cached_context,
                 call, reloaded>>
  /\ UNCHANGED notAgent

\* reload, lines 90-96
ReloadConfigLoad(u) ==
  /\ upload[u].pc = "r_config_load"
  /\ config' = Config1
  /\ upload' = [upload EXCEPT ![u].pc = "r_kb_clear"]
  /\ UNCHANGED <<disk_kb, disk_transcripts, knowledge_base, transcripts, cached_context,
                 call, reloaded>>
  /\ UNCHANGED notAgent

\* reload, line 99
ReloadKbClear(u) ==
  /\ upload[u].pc = "r_kb_clear"
  /\ knowledge_base' = None
  /\ upload' = [upload EXCEPT ![u].pc = "r_kb_load", ![u].kb_before = knowledge_base]
  /\ UNCHANGED <<disk_kb, disk_transcripts, config, transcripts, cached_context, call,
                 reloaded>>
  /\ UNCHANGED notAgent

\* reload, lines 100-106
ReloadKbLoad(u) ==
  /\ upload[u].pc = "r_kb_load"
  /\ knowledge_base' = disk_kb
  /\ upload' = [upload EXCEPT ![u].pc = "r_transcripts", ![u].kb_before = None]
  /\ UNCHANGED <<disk_kb, disk_transcripts, config, transcripts, cached_context, call,
                 reloaded>>
  /\ UNCHANGED notAgent

\* reload, line 109
ReloadTranscripts(u) ==
  /\ upload[u].pc = "r_transcripts"
  /\ transcripts' = disk_transcripts
  /\ upload' = [upload EXCEPT ![u].pc = "r_cache", ![u].loaded = disk_transcripts]
  /\ UNCHANGED <<disk_kb, disk_transcripts, config, knowledge_base, cached_context, call,
                 reloaded>>
  /\ UNCHANGED notAgent

\* reload, line 112, and the return of reload
ReloadClearCache(u) ==
  /\ upload[u].pc = "r_cache"
  /\ cached_context' = AfterReloadCache(cached_context)
  /\ upload' = [upload EXCEPT ![u].pc = "done"]
  /\ reloaded' = IF upload[u].loaded > reloaded THEN upload[u].loaded ELSE reloaded
  /\ UNCHANGED <<disk_kb, disk_transcripts, config, knowledge_base, transcripts, call>>
  /\ UNCHANGED notAgent

\* answer_query calls _get_transcript_context
GetStart(c) ==
  /\ call[c].pc = "new"
  /\ c > 1 => call[c - 1].pc # "new"
  /\ call' = [call EXCEPT ![c].pc = "test_cache", ![c].floor = reloaded]
  /\ UNCHANGED <<disk_kb, disk_transcripts, config, knowledge_base, transcripts,
                 cached_context, upload, reloaded>>
  /\ UNCHANGED notAgent

\* line 143
GetTestCache(c) ==
  /\ call[c].pc = "test_cache"
  /\ call' = [call EXCEPT ![c].pc =
       IF CacheHit(cached_context) THEN "return_cache" ELSE "test_kb"]
  /\ UNCHANGED <<disk_kb, disk_transcripts, config, knowledge_base, transcripts,
                 cached_context, upload, reloaded>>
  /\ UNCHANGED notAgent

\* lines 144, 166 and 195: return self.cached_context reads the attribute again
GetReturnCache(c) ==
  /\ call[c].pc = "return_cache"
  /\ call' = [call EXCEPT ![c].pc = "returned", ![c].ret = cached_context]
  /\ UNCHANGED <<disk_kb, disk_transcripts, config, knowledge_base, transcripts,
                 cached_context, upload, reloaded>>
  /\ UNCHANGED notAgent

\* line 147
GetTestKb(c) ==
  /\ call[c].pc = "test_kb"
  /\ call' = [call EXCEPT ![c].pc =
       IF KBTruthy(knowledge_base) THEN "build_kb" ELSE "test_transcripts"]
  /\ UNCHANGED <<disk_kb, disk_transcripts, config, knowledge_base, transcripts,
                 cached_context, upload, reloaded>>
  /\ UNCHANGED notAgent

\* lines 148-163: kb = self.knowledge_base reads the attribute again; on None,
\* kb.get raises AttributeError
GetBuildKb(c) ==
  /\ call[c].pc = "build_kb"
  /\ call' = [call EXCEPT
       ![c].pc = IF knowledge_base = None THEN "raised" ELSE "store",
       ![c].ctx = IF knowledge_base = None THEN NoContext ELSE RenderKB(knowledge_base)]
  /\ UNCHANGED <<disk_kb, disk_transcripts, config, knowledge_base, transcripts,
                 cached_context, upload, reloaded>>
  /\ UNCHANGED notAgent

\* lines 169-170
GetTestTranscripts(c) ==
  /\ call[c].pc = "test_transcripts"
  /\ call' = [call EXCEPT
       ![c].pc = IF transcripts = 0 THEN "returned" ELSE "build_transcripts",
       ![c].ret = IF transcripts = 0 THEN NoTranscripts ELSE NoContext]
  /\ UNCHANGED <<disk_kb, disk_transcripts, config, knowledge_base, transcripts,
                 cached_context, upload, reloaded>>
  /\ UNCHANGED notAgent

\* lines 172-192: the loop reads self.transcripts again
GetBuildTranscripts(c) ==
  /\ call[c].pc = "build_transcripts"
  /\ call' = [call EXCEPT ![c].pc = "store", ![c].ctx = RenderTranscripts(transcripts)]
  /\ UNCHANGED <<disk_kb, disk_transcripts, config, knowledge_base, transcripts,
                 cached_context, upload, reloaded>>
  /\ UNCHANGED notAgent

\* lines 165 and 194: self.cached_context = "\n".join(context_parts)
GetStore(c) ==
  /\ call[c].pc = "store"
  /\ cached_context' = call[c].ctx
  /\ call' = [call EXCEPT ![c].pc = "return_cache"]
  /\ UNCHANGED <<disk_kb, disk_transcripts, config, knowledge_base, transcripts, upload,
                 reloaded>>
  /\ UNCHANGED notAgent

SomeKbExtracted == \E kb \in {KBEmpty, KB1} : KbExtracted(kb)
SomeUploadWrite == \E u \in Uploads, matched \in BOOLEAN : UploadWrite(u, matched)
SomeReloadConfigClear == \E u \in Uploads : ReloadConfigClear(u)
SomeReloadConfigLoad == \E u \in Uploads : ReloadConfigLoad(u)
SomeReloadKbClear == \E u \in Uploads : ReloadKbClear(u)
SomeReloadKbLoad == \E u \in Uploads : ReloadKbLoad(u)
SomeReloadTranscripts == \E u \in Uploads : ReloadTranscripts(u)
SomeReloadClearCache == \E u \in Uploads : ReloadClearCache(u)
SomeGetStart == \E c \in Calls : GetStart(c)
SomeGetTestCache == \E c \in Calls : GetTestCache(c)
SomeGetReturnCache == \E c \in Calls : GetReturnCache(c)
SomeGetTestKb == \E c \in Calls : GetTestKb(c)
SomeGetBuildKb == \E c \in Calls : GetBuildKb(c)
SomeGetTestTranscripts == \E c \in Calls : GetTestTranscripts(c)
SomeGetBuildTranscripts == \E c \in Calls : GetBuildTranscripts(c)
SomeGetStore == \E c \in Calls : GetStore(c)

AgentNext ==
  \/ SomeKbExtracted
  \/ SomeUploadWrite
  \/ SomeReloadConfigClear
  \/ SomeReloadConfigLoad
  \/ SomeReloadKbClear
  \/ SomeReloadKbLoad
  \/ SomeReloadTranscripts
  \/ SomeReloadClearCache
  \/ SomeGetStart
  \/ SomeGetTestCache
  \/ SomeGetReturnCache
  \/ SomeGetTestKb
  \/ SomeGetBuildKb
  \/ SomeGetTestTranscripts
  \/ SomeGetBuildTranscripts
  \/ SomeGetStore

SpecAgent == Init /\ [][AgentNext]_vars

(***************************************************************************)
(* The language tag of answer_query: actions                               *)
(***************************************************************************)
\* lines 241-246: the agent has neither transcripts nor a knowledge base
LqNoSource(q, lang) ==
  /\ lang_pc = "idle"
  /\ query' = q
  /\ language' = lang
  /\ lang_result' = NoSourceResult
  /\ lang_pc' = "returned"
  /\ UNCHANGED <<heuristic_lang, lang_escaped>>
  /\ UNCHANGED notLang

\* line 251, on an agent with a source
LqDetect(q, lang) ==
  /\ lang_pc = "idle"
  /\ query' = q
  /\ language' = lang
  /\ heuristic_lang' = DetectQueryLanguage(q)
  /\ lang_pc' = "detected"
  /\ UNCHANGED <<lang_result, lang_escaped>>
  /\ UNCHANGED notLang

\* lines 355-381: a generate_content call returned answer
LqGenerated(answer) ==
  /\ lang_pc = "detected"
  /\ lang_result' = AnswerResult(answer)
  /\ lang_pc' = "returned"
  /\ UNCHANGED <<query, language, heuristic_lang, lang_escaped>>
  /\ UNCHANGED notLang

\* _initialize_model or the retry loop raises: line 398 catches it
LqRaise ==
  /\ lang_pc = "detected"
  /\ lang_pc' = "handler"
  /\ UNCHANGED <<query, language, heuristic_lang, lang_result, lang_escaped>>
  /\ UNCHANGED notLang

\* line 400: NameError leaves answer_query, no dictionary is returned
LqHandler ==
  /\ lang_pc = "handler"
  /\ lang_escaped' = NameError
  /\ lang_pc' = "raised"
  /\ UNCHANGED <<query, language, heuristic_lang, lang_result>>
  /\ UNCHANGED notLang

LqEnd ==
  /\ lang_pc \in {"returned", "raised"}
  /\ lang_pc' = "idle"
  /\ query' = << >>
  /\ language' = None
  /\ heuristic_lang' = None
  /\ lang_result' = NoResult
  /\ lang_escaped' = None
  /\ UNCHANGED notLang

SomeLqNoSource == \E q \in Queries, lang \in Languages : LqNoSource(q, lang)
SomeLqDetect == \E q \in Queries, lang \in Languages : LqDetect(q, lang)
SomeLqGenerated == \E answer \in Queries : LqGenerated(answer)

LanguageNext ==
  \/ SomeLqNoSource
  \/ SomeLqDetect
  \/ SomeLqGenerated
  \/ LqRaise
  \/ LqHandler
  \/ LqEnd

SpecLanguage == Init /\ [][LanguageNext]_vars

(***************************************************************************)
(* Ingestion, construction and rendering, one handler at a time            *)
(***************************************************************************)
\* upload_transcripts, lines 635-707, for one file: the document is written
\* to transcripts/ (matched: under a name that _load_transcripts globs), and
\* the agent is reloaded if the registry holds it
UploadTranscripts(matched) ==
  /\ ingested < MaxUploads
  /\ ingested' = ingested + 1
  /\ disk_transcripts' = IF matched THEN disk_transcripts + 1 ELSE disk_transcripts
  /\ IF agents # NotCached
       THEN LET a == LoadedAgent(disk_kb, disk_transcripts')
            IN /\ config' = a.config
               /\ knowledge_base' = a.knowledge_base
               /\ transcripts' = a.transcripts
               /\ cached_context' = a.cached_context
               /\ renders' = << >>
               /\ last_answer' = NoAnswer
       ELSE UNCHANGED <<config, knowledge_base, transcripts, cached_context, renders,
                        last_answer>>
  /\ UNCHANGED <<disk_kb, upload, call, reloaded>>
  /\ UNCHANGED registryVars
  /\ UNCHANGED notTenant

\* get_agent, lines 790-798, when the registry has no entry and __init__
\* succeeds
GetAgent ==
  /\ agents = NotCached
  /\ created < MaxInstances
  /\ LET a == LoadedAgent(disk_kb, disk_transcripts)
     IN /\ config' = a.config
        /\ knowledge_base' = a.knowledge_base
        /\ transcripts' = a.transcripts
        /\ cached_context' = a.cached_context
  /\ agents' = created + 1
  /\ created' = created + 1
  /\ since_evict' = since_evict + 1
  /\ renders' = << >>
  /\ last_answer' = NoAnswer
  /\ UNCHANGED <<disk_kb, disk_transcripts, upload, call, reloaded, ingested>>
  /\ UNCHANGED <<biz_dir, worker, del_pc, evicted, failed_once>>
  /\ UNCHANGED notTenant

\* one call of _get_transcript_context on the agent the registry holds
RenderContext ==
  /\ agents # NotCached
  /\ LET o == RenderOutcome(knowledge_base, transcripts, cached_context)
     IN /\ cached_context' = o.cache
        /\ renders' = LastTwo(Append(renders, [ret |-> o.ret, built |-> o.built]))
  /\ UNCHANGED <<disk_kb, disk_transcripts, config, knowledge_base, transcripts, upload,
                 call, reloaded, ingested, last_answer>>
  /\ UNCHANGED registryVars
  /\ UNCHANGED notTenant

\* one call of answer_query on the agent the registry holds: without a source
\* it returns at line 246; otherwise it resolves the model, renders the
\* context (line 257) and generates, and generated tells whether that worked
AnswerQuery(generated) ==
  /\ agents # NotCached
  /\ IF NoSource(transcripts, knowledge_base)
       THEN /\ last_answer' = NoSourceAnswer
            /\ UNCHANGED <<cached_context, renders>>
       ELSE LET o == RenderOutcome(knowledge_base, transcripts, cached_context)
            IN /\ cached_context' = o.cache
               /\ renders' = LastTwo(Append(renders, [ret |-> o.ret, built |-> o.built]))
               /\ last_answer' = IF generated THEN GeneratedAnswer ELSE FailedAnswer
  /\ UNCHANGED <<disk_kb, disk_transcripts, config, knowledge_base, transcripts, upload,
                 call, reloaded, ingested>>
  /\ UNCHANGED registryVars
  /\ UNCHANGED notTenant

SomeAnswerQuery == \E generated \in BOOLEAN : AnswerQuery(generated)

SomeUploadTranscripts == \E matched \in BOOLEAN : UploadTranscripts(matched)

TenantNext ==
  \/ SomeKbExtracted
  \/ SomeUploadTranscripts
  \/ GetAgent
  \/ RenderContext
  \/ SomeAnswerQuery

SpecTenant == Init /\ [][TenantNext]_vars

(***************************************************************************)
(* The agent registry: actions                                             *)
(***************************************************************************)
\* get_agent, line 791
GaCheck(w) ==
  /\ worker[w].pc = "idle"
  /\ worker' = [worker EXCEPT
       ![w].pc = IF agents = NotCached THEN "construct" ELSE "return",
       ![w].nodir = ~biz_dir,
       ![w].after_failure = failed_once]
  /\ UNCHANGED <<agents, biz_dir, created, del_pc, evicted, since_evict, failed_once>>
  /\ UNCHANGED notRegistry

\* line 794, TranscriptQueryAgent(...) raises (no API key, no SDK, the client
\* cannot be made), and lines 795-797
GaConstructFails(w) ==
  /\ worker[w].pc = "construct"
  /\ agents' = RegistryAfterFailure(agents)
  /\ worker' = [worker EXCEPT ![w].pc = "done", ![w].ret = 0, ![w].outcome = "none"]
  /\ failed_once' = TRUE
  /\ UNCHANGED <<biz_dir, created, del_pc, evicted, since_evict>>
  /\ UNCHANGED notRegistry

\* line 794, right-hand side: __init__ reads the tenant's directory, which
\* may be missing, and returns an instance
GaConstruct(w) ==
  /\ worker[w].pc = "construct"
  /\ created < MaxInstances
  /\ created' = created + 1
  /\ since_evict' = since_evict + 1
  /\ worker' = [worker EXCEPT
       ![w].pc = "assign",
       ![w].inst = created + 1,
       ![w].nodir = worker[w].nodir /\ ~biz_dir]
  /\ UNCHANGED <<agents, biz_dir, del_pc, evicted, failed_once>>
  /\ UNCHANGED notRegistry

\* line 794, the store into agents[business_id]
GaAssign(w) ==
  /\ worker[w].pc = "assign"
  /\ agents' = worker[w].inst
  /\ worker' = [worker EXCEPT ![w].pc = "return"]
  /\ UNCHANGED <<biz_dir, created, del_pc, evicted, since_evict, failed_once>>
  /\ UNCHANGED notRegistry

\* line 798: the registry is read again; without an entry the subscript
\* raises KeyError
GaReturn(w) ==
  /\ worker[w].pc = "return"
  /\ worker' = [worker EXCEPT
       ![w].pc = "done",
       ![w].ret = IF agents = NotCached THEN 0 ELSE agents,
       ![w].outcome = IF agents = NotCached THEN "KeyError" ELSE "agent"]
  /\ UNCHANGED <<agents, biz_dir, created, del_pc, evicted, since_evict, failed_once>>
  /\ UNCHANGED notRegistry

\* the caller is over
GaEnd(w) ==
  /\ worker[w].pc = "done"
  /\ worker' = [worker EXCEPT ![w] = IdleWorker]
  /\ UNCHANGED <<agents, biz_dir, created, del_pc, evicted, since_evict, failed_once>>
  /\ UNCHANGED notRegistry

\* delete_business, lines 713-740: the directory exists and is removed
DeleteRmtree ==
  /\ del_pc = "idle"
  /\ biz_dir
  /\ biz_dir' = FALSE
  /\ del_pc' = "evict"
  /\ UNCHANGED <<agents, created, worker, evicted, since_evict, failed_once>>
  /\ UNCHANGED notRegistry

\* delete_business, lines 743-747
DeleteEvict ==
  /\ del_pc = "evict"
  /\ agents' = NotCached
  /\ del_pc' = "idle"
  /\ evicted' = ~biz_dir
  /\ since_evict' = 0
  /\ UNCHANGED <<biz_dir, created, worker, failed_once>>
  /\ UNCHANGED notRegistry

\* setup_business creates the directory of the tenant again
Onboard ==
  /\ ~biz_dir
  /\ biz_dir' = TRUE
  /\ evicted' = FALSE
  /\ worker' = [w \in Workers |-> [worker[w] EXCEPT !.nodir = FALSE]]
  /\ UNCHANGED <<agents, created, del_pc, since_evict, failed_once>>
  /\ UNCHANGED notRegistry

SomeGaCheck == \E w \in Workers : GaCheck(w)
SomeGaConstructFails == \E w \in Workers : GaConstructFails(w)
SomeGaConstruct == \E w \in Workers : GaConstruct(w)
SomeGaAssign == \E w \in Workers : GaAssign(w)
SomeGaReturn == \E w \in Workers : GaReturn(w)
SomeGaEnd == \E w \in Workers : GaEnd(w)

RegistryNext ==
  \/ SomeGaCheck
  \/ SomeGaConstructFails
  \/ SomeGaConstruct
  \/ SomeGaAssign
  \/ SomeGaReturn
  \/ SomeGaEnd
  \/ DeleteRmtree
  \/ DeleteEvict
  \/ Onboard

SpecRegistry == Init /\ [][RegistryNext]_vars

(***************************************************************************)
(* _initialize_model under concurrent callers: actions                     *)
(***************************************************************************)
\* lines 210-211
MiEnter(t) ==
  /\ resolver[t].pc = "idle"
  /\ resolver' = [resolver EXCEPT ![t] =
       IF model_name # None
         THEN [pc |-> "returned", i |-> 0, probed |-> << >>, ret |-> model_name,
               memo |-> model_name]
         ELSE [pc |-> "probe", i |-> 1, probed |-> << >>, ret |-> None, memo |-> None]]
  /\ UNCHANGED retryVars
  /\ UNCHANGED notModel

\* lines 217-223: the test call for the candidate succeeds
MiProbeSucceeds(t) ==
  /\ resolver[t].pc = "probe"
  /\ resolver[t].i <= Len(models_to_try)
  /\ model_name' = models_to_try[resolver[t].i]
  /\ resolver' = [resolver EXCEPT
       ![t].pc = "returned",
       ![t].probed = Append(@, [id |-> models_to_try[resolver[t].i], ok |-> TRUE]),
       ![t].ret = models_to_try[resolver[t].i]]
  /\ UNCHANGED <<aq_pc, attempt, last_error, attempt_log, caught, result, escaped>>
  /\ UNCHANGED notModel

\* lines 224-229: the test call raises e, with 404 or NOT_FOUND in its text
\* or not
MiProbeFails(t, e) ==
  /\ resolver[t].pc = "probe"
  /\ resolver[t].i <= Len(models_to_try)
  /\ resolver' = [resolver EXCEPT
       ![t].i = NextCandidate(@),
       ![t].probed = Append(@, [id |-> models_to_try[resolver[t].i], ok |-> FALSE])]
  /\ UNCHANGED retryVars
  /\ UNCHANGED notModel

\* line 231: the list is exhausted
MiRaise(t) ==
  /\ resolver[t].pc = "probe"
  /\ resolver[t].i > Len(models_to_try)
  /\ resolver' = [resolver EXCEPT ![t].pc = "raised"]
  /\ UNCHANGED retryVars
  /\ UNCHANGED notModel

\* the caller goes on
MiEnd(t) ==
  /\ resolver[t].pc \in {"returned", "raised"}
  /\ resolver' = [resolver EXCEPT ![t] = IdleResolver]
  /\ UNCHANGED retryVars
  /\ UNCHANGED notModel

SomeMiEnter == \E t \in Resolvers : MiEnter(t)
SomeMiProbeSucceeds == \E t \in Resolvers : MiProbeSucceeds(t)
SomeMiProbeFails == \E t \in Resolvers, e \in {Err404, Err429, Err503} : MiProbeFails(t, e)
SomeMiRaise == \E t \in Resolvers : MiRaise(t)
SomeMiEnd == \E t \in Resolvers : MiEnd(t)

ModelNext ==
  \/ SomeMiEnter
  \/ SomeMiProbeSucceeds
  \/ SomeMiProbeFails
  \/ SomeMiRaise
  \/ SomeMiEnd

SpecModel == Init /\ [][ModelNext]_vars

(***************************************************************************)
(* extract_lead_info: actions                                              *)
(***************************************************************************)
\* lines 419-424: no message in the conversation
ExEmpty ==
  /\ ex_pc = "idle"
  /\ extracted' = EmptyExtraction
  /\ ex_pc' = "returned"
  /\ UNCHANGED <<result_text, ex_escaped>>
  /\ UNCHANGED notExtract

\* line 427, outside the try of line 434: _initialize_model raises
ExInitializeFails ==
  /\ ex_pc = "idle"
  /\ ex_escaped' = "Exception: No working Gemini model found."
  /\ ex_pc' = "raised"
  /\ UNCHANGED <<result_text, extracted>>
  /\ UNCHANGED notExtract

\* lines 463-476: generate_content returned text
ExGenerated(text) ==
  /\ ex_pc = "idle"
  /\ result_text' = text
  /\ ex_pc' = "generated"
  /\ UNCHANGED <<extracted, ex_escaped>>
  /\ UNCHANGED notExtract

\* lines 478-503
ExParse ==
  /\ ex_pc = "generated"
  /\ extracted' = ParseResponse(result_text)
  /\ ex_pc' = "parsed"
  /\ UNCHANGED <<result_text, ex_escaped>>
  /\ UNCHANGED notExtract

\* lines 463-474: generate_content raises, line 505 catches it
ExGenerateFails ==
  /\ ex_pc = "idle"
  /\ ex_pc' = "handler"
  /\ UNCHANGED <<result_text, extracted, ex_escaped>>
  /\ UNCHANGED notExtract

\* line 507: logger is not a name of the module, NameError leaves the call
ExHandler ==
  /\ ex_pc = "handler"
  /\ ex_escaped' = NameError
  /\ ex_pc' = "raised"
  /\ UNCHANGED <<result_text, extracted>>
  /\ UNCHANGED notExtract

ExEnd ==
  /\ ex_pc \in {"returned", "parsed", "raised"}
  /\ ex_pc' = "idle"
  /\ result_text' = << >>
  /\ extracted' = NoExtraction
  /\ ex_escaped' = None
  /\ UNCHANGED notExtract

SomeExGenerated == \E text \in ModelOutputs : ExGenerated(text)

ExtractNext ==
  \/ ExEmpty
  \/ ExInitializeFails
  \/ SomeExGenerated
  \/ ExParse
  \/ ExGenerateFails
  \/ ExHandler
  \/ ExEnd

SpecExtract == Init /\ [][ExtractNext]_vars

(***************************************************************************)
(* The handlers of one session, one at a time: actions                     *)
(***************************************************************************)
\* handle_query, lines 825-860, for a request of tenant business_id: the row
\* is looked up by session_id alone, created under business_id if absent,
\* and its messages are set; the extraction started at line 860 ends at
\* line 390 without a write
HandleQuery(business_id) ==
  /\ served < MaxTurns
  /\ served' = served + 1
  /\ LET d == IF SessionId \in DOMAIN db THEN db
               ELSE [s \in {SessionId} |-> NewRow(business_id)]
     IN db' = UpdateConversation(d, SessionId, TenantMessages(served', business_id),
                                 NoLead, FALSE)
  /\ UNCHANGED <<req, task, latest_saved>>
  /\ UNCHANGED notRow

\* save_conversation, lines 966-1000, with its thread run to the end:
\* extract_lead_info returned lead_info
SaveConversation(business_id, ended, lead_info) ==
  /\ served < MaxTurns
  /\ served' = served + 1
  /\ LET d == IF SessionId \in DOMAIN db THEN db
               ELSE [s \in {SessionId} |-> NewRow(business_id)]
         messages == TenantMessages(served', business_id)
         saved == UpdateConversation(d, SessionId, messages, NoLead, ended)
     IN db' = UpdateConversation(saved, SessionId, messages, lead_info, ended)
  /\ UNCHANGED <<req, task, latest_saved>>
  /\ UNCHANGED notRow

\* save_conversation whose thread ended in its except: lines 966-978 only
SaveConversationOnly(business_id, ended) ==
  /\ served < MaxTurns
  /\ served' = served + 1
  /\ LET d == IF SessionId \in DOMAIN db THEN db
               ELSE [s \in {SessionId} |-> NewRow(business_id)]
     IN db' = UpdateConversation(d, SessionId, TenantMessages(served', business_id),
                                 NoLead, ended)
  /\ UNCHANGED <<req, task, latest_saved>>
  /\ UNCHANGED notRow

SomeHandleQuery == \E business_id \in BusinessIds : HandleQuery(business_id)
SomeSaveConversation ==
  \E business_id \in BusinessIds, ended \in BOOLEAN, lead_info \in LeadInfos :
    SaveConversation(business_id, ended, lead_info)
SomeSaveConversationOnly ==
  \E business_id \in BusinessIds, ended \in BOOLEAN : SaveConversationOnly(business_id, ended)

RowsNext ==
  \/ SomeHandleQuery
  \/ SomeSaveConversation
  \/ SomeSaveConversationOnly

SpecRows == Init /\ [][RowsNext]_vars

(***************************************************************************)
(* vapi_webhook_handler: actions                                           *)
(***************************************************************************)
\* setup_business, lines 536-559 and the write of business_config.json: the
\* tenant's configuration stores stored
HookSetup(t, stored) ==
  /\ stored # Absent
  /\ hook_configs' = [hook_configs EXCEPT ![t] = stored]
  /\ hook' = IdleHook
  /\ UNCHANGED notHook

\* lines 301-367, one message
VapiWebhookHandler(order, type_, assistant_id, caller_number, call_id) ==
  /\ hook' = WebhookOutcome(hook_configs, order, type_, assistant_id, caller_number,
                            call_id)
  /\ UNCHANGED hook_configs
  /\ UNCHANGED notHook

SomeHookSetup == \E t \in HookTenants, stored \in StoredAssistantIds : HookSetup(t, stored)
SomeVapiWebhookHandler ==
  \E order \in ScanOrders, type_ \in {"end-of-call-report", "status-update"},
     assistant_id \in AssistantIds \cup {None, ""}, caller_number \in {None, "+15550100"},
     call_id \in {None, "call_1"} :
    VapiWebhookHandler(order, type_, assistant_id, caller_number, call_id)

WebhookNext ==
  \/ SomeHookSetup
  \/ SomeVapiWebhookHandler

SpecWebhook == Init /\ [][WebhookNext]_vars

(***************************************************************************)
(* Claims on the turn policy                                               *)
(***************************************************************************)
\* The texts of Texts that carry a phone pattern, and those that ask for name
\* and phone together, listed by hand.
PhoneTexts == {TxtTenDigits, TxtGrouped}
AskingTexts == {TxtNamePhone, TxtNaamNumber}

ContactSignal(h) ==
  \E i \in 1..Len(h) :
    \/ h[i].role = "assistant" /\ h[i].text \in AskingTexts
    \/ h[i].role = "user" /\ h[i].text \in PhoneTexts

UserTurnIndex(h) == Cardinality({i \in 1..Len(h) : h[i].role = "user"}) + 1

\* C8: once the history holds an assistant message asking for name and phone
\* (or naam and number) or a user message with a phone pattern, the contact
\* instruction of that turn is "do not ask", and the signal stays in every
\* history grown by appending, so every later turn is "do not ask" as well.
C8_ContactSuppressionPermanent ==
  /\ [](policy_pc = "answered" /\ ContactSignal(conversation_history)
          => lead_capture_instruction \in {DontAskHave, DontAskMissed})
  /\ [][ContactSignal(conversation_history) => ContactSignal(conversation_history')]_vars

C8_Witness ==
  /\ policy_pc = "answered"
  /\ Len(conversation_history) >= 3
  /\ conversation_history[1] = [role |-> "user", text |-> TxtTenDigits]
  /\ UserTurnIndex(conversation_history) = 2
  /\ lead_capture_instruction = DontAskHave

\* C9: with turn index = user messages + 1, the instruction is "ask" exactly
\* when no signal holds and the turn index is at most 2; with no signal and a
\* turn index above 2 it is "do not ask".
C9_ContactCaptureDecision ==
  policy_pc = "answered" =>
    LET turn == UserTurnIndex(conversation_history)
        signal == ContactSignal(conversation_history)
    IN /\ current_turn = turn
       /\ lead_capture_instruction = AskContact <=> (~signal /\ turn <= 2)
       /\ (~signal /\ turn > 2) => lead_capture_instruction = DontAskMissed

C9_Witness ==
  /\ policy_pc = "answered"
  /\ current_turn = 2
  /\ Len(conversation_history) >= 2
  /\ lead_capture_instruction = AskContact

\* C10: a greeting is required exactly when the history is empty; any
\* non-empty history, whatever the roles of its messages, forbids it.
C10_GreetingPolicy ==
  policy_pc = "answered" =>
    /\ greeting_instruction \in {Greet, DontGreet}
    /\ greeting_instruction = Greet <=> conversation_history = << >>

C10_Witness ==
  /\ policy_pc = "answered"
  /\ conversation_history # << >>
  /\ \A i \in 1..Len(conversation_history) : conversation_history[i].role # "user"
  /\ greeting_instruction = DontGreet

(***************************************************************************)
(* Claims on the retry loop                                                *)
(***************************************************************************)
\* The generation errors that are quota, rate-limit or 5xx errors, by hand.
TransientErrors == {Err429, Err503, Err500, ErrQuota}

AllAttemptsTransient ==
  /\ attempt_log # << >>
  /\ \A i \in 1..Len(attempt_log) : attempt_log[i] \in TransientErrors

\* C5: one answer_query call makes at most 3 generation calls; a call whose
\* attempts all failed with transient errors made exactly 3 and ended in
\* failure, with no answer returned.
C5_RetryBound ==
  /\ Len(attempt_log) <= 3
  /\ (aq_pc \in {"handler", "returned", "raised"} /\ AllAttemptsTransient)
       => /\ Len(attempt_log) = 3
          /\ aq_pc \in {"handler", "raised"}
          /\ result = None

C5_Witness ==
  /\ aq_pc = "raised"
  /\ AllAttemptsTransient
  /\ Len(attempt_log) = 3
  /\ escaped # None

\* C6: every attempt but the last one made failed with a transient error; a
\* successful attempt is the last and the call has returned its answer; an
\* attempt failing with a non-transient error is the last and its error is the
\* one raised out of the loop.
C6_RetryOnlyTransient ==
  /\ \A k \in 1..(Len(attempt_log) - 1) : attempt_log[k] \in TransientErrors
  /\ attempt_log # << >> =>
       LET last == attempt_log[Len(attempt_log)]
       IN /\ last = Ok => (aq_pc = "returned" /\ result = "answer")
          /\ last \notin TransientErrors \cup {Ok}
               => (aq_pc \in {"handler", "raised"} /\ caught = last)

C6_Witness ==
  /\ Len(attempt_log) = 2
  /\ attempt_log[1] = Err503
  /\ attempt_log[2] = ErrExhausted
  /\ aq_pc = "handler"

\* C7: when all 3 attempts failed with transient errors, the exception that
\* reaches the failure handler is the one of the third attempt.
C7_LastErrorSurfaced ==
  (aq_pc \in {"handler", "raised"} /\ Len(attempt_log) = 3 /\ AllAttemptsTransient)
    => caught = attempt_log[3]

C7_Witness ==
  /\ aq_pc = "handler"
  /\ attempt_log = <<Err503, Err500, Err429>>
  /\ caught = Err429

(***************************************************************************)
(* Claims on the conversation store                                        *)
(***************************************************************************)
\* no handler and no extraction thread is running
Quiescent ==
  \A r \in Requests :
    /\ req[r].pc \in {"new", "done", "failed"}
    /\ task[r].pc \in {"none", "done", "failed"}

\* the extraction thread of request r has saved its result
Wrote(r) == req[r].kind = "save" /\ task[r].pc = "done"

\* C2: when a synchronous message save races with the save of an extraction
\* thread, the final row holds the message list of the latest synchronous save
\* and the extracted fields.
C2_NeitherWriteLost ==
  (Quiescent /\ \E r \in Requests : Wrote(r)) =>
    /\ db[SessionId].messages = latest_saved
    /\ \A r \in Requests, f \in LeadFields :
         (Wrote(r) /\ Truthy(task[r].lead_info[f])) => db[SessionId][f] # None

\* C3: a save whose name, phone, summary and classification are all null
\* leaves the four columns of the row as they were.
C3_MergeLaw ==
  [][\A r \in Requests :
       (task[r].pc = "write" /\ task'[r].pc = "done" /\ task[r].lead_info = NoLead)
         => \A f \in LeadFields : db'[SessionId][f] = db[SessionId][f]]_vars

\* extraction 1 stored a lead, then extraction 2, all null, has saved after it
C3_Witness ==
  /\ Wrote(1) /\ Wrote(2)
  /\ task[1].lead_info.customer_name = "Asha"
  /\ task[2].lead_info = NoLead
  /\ db[SessionId].messages = ClientMessages(2)
  /\ db[SessionId].customer_name = "Asha"
  /\ db[SessionId].lead_classification = "HOT_LEAD"

\* C4 as stated: after two extraction threads of the session have saved, every
\* field for which one of them produced a non-null value is non-null in the row.
C4_NonNullFieldsKept ==
  \A r1, r2 \in Requests :
    (r1 # r2 /\ Wrote(r1) /\ Wrote(r2) /\ Quiescent) =>
      \A f \in LeadFields :
        (task[r1].lead_info[f] # None \/ task[r2].lead_info[f] # None)
          => db[SessionId][f] # None

\* C4 amended: after two extraction threads of the session have saved, in
\* either order, every field for which one of them produced a value that is
\* neither null nor the empty string is non-null in the row.
C4_NonEmptyFieldsKept ==
  \A r1, r2 \in Requests :
    (r1 # r2 /\ Wrote(r1) /\ Wrote(r2) /\ Quiescent) =>
      \A f \in LeadFields :
        (Truthy(task[r1].lead_info[f]) \/ Truthy(task[r2].lead_info[f]))
          => db[SessionId][f] # None

\* thread 2 (no name, a phone) saved first, thread 1 (a name, no phone) after it
C4_Witness ==
  /\ Wrote(1) /\ Wrote(2) /\ Quiescent
  /\ task[1].lead_info.customer_name = "Ravi"
  /\ task[2].lead_info.customer_name = None
  /\ task[2].lead_info.customer_phone = "9876543210"
  /\ db[SessionId].messages = ClientMessages(1)
  /\ db[SessionId].customer_name = "Ravi"
  /\ db[SessionId].customer_phone = "9876543210"

(***************************************************************************)
(* Claims on the tenant agent                                              *)
(***************************************************************************)
\* C1: a call of _get_transcript_context that starts after a reload has
\* returned does not return a text built from fewer transcripts than that
\* reload loaded.
C1_NoStaleRendering ==
  \A c \in Calls :
    (call[c].pc = "returned" /\ call[c].ret.kind \in {"transcripts", "No transcripts available."})
      => call[c].ret.n >= call[c].floor

(***************************************************************************)
(* Claims on the language tag                                              *)
(***************************************************************************)
\* the Devanagari block U+0900..U+097F
Devanagari == 2304..2431

\* C11: _detect_query_language returns Hindi when the query has at least one
\* code point of the Devanagari block, mixed-script queries included, and
\* English for every other query, the empty one included.
C11_LanguageSelection ==
  lang_pc = "detected" =>
    heuristic_lang =
      IF {i \in DOMAIN query : query[i] \in Devanagari} # {} THEN "Hindi" ELSE "English"

\* a mixed-script query with one Devanagari code point, not in first place
C11_Witness ==
  /\ lang_pc = "detected"
  /\ query = <<65, 2431>>
  /\ heuristic_lang = "Hindi"

\* C12: every call of answer_query that is over, on the success path and on
\* every failure path, has handed back a language tag that is Hindi or English.
C12_LanguageTagBinary ==
  lang_pc \in {"returned", "raised"} => lang_result.query_language \in {"Hindi", "English"}

(***************************************************************************)
(* Claims on ingestion and rendering                                       *)
(***************************************************************************)
\* C13: two successive calls of _get_transcript_context with no reload
\* between them return the same text, and the second one builds nothing.
C13_RenderIdempotent ==
  Len(renders) = 2 => (renders[2].ret = renders[1].ret /\ ~renders[2].built)

\* the first call built the text from the transcripts, the second returned it
C13_Witness ==
  /\ Len(renders) = 2
  /\ renders[1].built
  /\ renders[1].ret = RenderTranscripts(1)
  /\ renders[2].ret = RenderTranscripts(1)

\* C14: once uploads have completed, a context rendered from the transcripts
\* holds every document the uploads ingested, on the reload path and on the
\* construction path.
C14_RenderAfterIngestion ==
  \A i \in DOMAIN renders :
    renders[i].ret.kind \in {"transcripts", "No transcripts available."}
      => renders[i].ret.n = ingested

\* C15: when no handler is running, the agent the registry holds has the
\* knowledge base and the transcripts that are on disk: every change of the
\* documents was followed by a reload or a drop of the agent.
C15_SourceChangeInvalidates ==
  agents # NotCached => (knowledge_base = disk_kb /\ transcripts = disk_transcripts)

\* a reload has cleared a knowledge base at line 99 and has not yet loaded
\* the one on disk
KbCleared ==
  \E u \in Uploads :
    upload[u].pc = "r_kb_load" /\ KBTruthy(upload[u].kb_before) /\ KBTruthy(disk_kb)

\* C16: no request sees the agent half reloaded: a rendering never finds the
\* knowledge base absent at line 147 while a reload is between clearing the
\* knowledge base the agent had and loading the one on disk.
C16_NoHalfUpdatedAgent ==
  [][\A c \in Calls :
       (call[c].pc = "test_kb" /\ call'[c].pc = "test_transcripts") => ~KbCleared]_vars

(***************************************************************************)
(* Claims on the agent registry                                            *)
(***************************************************************************)
\* C17: under every interleaving of get_agent calls, at most one instance is
\* constructed for the tenant between two evictions.
C17_SingleInstance == since_evict <= 1

\* C18: a call of get_agent whose construction fails returns None and does
\* not write the registry; the registry holds nothing but instances, and a
\* call skips construction only when the registry holds an instance.
C18_FailureNotCached ==
  /\ [](agents \in 0..created)
  /\ [][\A w \in Workers :
         /\ (worker[w].pc = "construct" /\ worker'[w].pc = "done")
              => (worker'[w].outcome = "none" /\ agents' = agents)
         /\ (worker[w].pc = "idle" /\ worker'[w].pc = "return")
              => agents \in 1..created]_vars

\* a failure was reported, the registry has no entry, and a later call has
\* constructed an instance
C18_Witness ==
  /\ worker[1].pc = "done"
  /\ worker[1].outcome = "none"
  /\ worker[2].after_failure
  /\ worker[2].pc = "assign"
  /\ agents = NotCached

\* C19: a call of get_agent during which the tenant's directory is missing
\* returns no agent and leaves none in the registry.
C19_TenantUnavailable ==
  \A w \in Workers :
    (worker[w].pc = "done" /\ worker[w].nodir)
      => (worker[w].outcome = "none" /\ agents = NotCached)

\* C20: once delete_business has completed, the registry holds no agent for
\* the tenant until the tenant is onboarded again.
C20_EvictedStaysEvicted == evicted => agents = NotCached

(***************************************************************************)
(* Claims on the source of the rendering                                   *)
(***************************************************************************)
\* C21: the raw transcripts are rendered only when the agent has loaded no
\* knowledge base: with a knowledge base loaded, whatever it holds, no
\* rendering is built from the transcripts.
C21_KnowledgeBaseWins ==
  \A i \in DOMAIN renders :
    renders[i].ret.kind = "transcripts" => knowledge_base = None

\* C22: on an agent with neither a knowledge base nor a transcript, every
\* rendering is the sentinel of line 170 and builds nothing, and answer_query
\* hands back the sentinel of line 244 without raising and without a call to
\* the language model.
C22_NoSourceSentinel ==
  (agents # NotCached /\ knowledge_base = None /\ transcripts = 0) =>
    /\ \A i \in DOMAIN renders : renders[i].ret = NoTranscripts /\ ~renders[i].built
    /\ last_answer # NoAnswer =>
         (last_answer.answer = NoInformation /\ ~last_answer.raised /\ ~last_answer.llm)

\* an empty agent has rendered and has answered
C22_Witness ==
  /\ agents # NotCached
  /\ knowledge_base = None
  /\ transcripts = 0
  /\ Len(renders) >= 1
  /\ renders[1].ret = NoTranscripts
  /\ last_answer = NoSourceAnswer

(***************************************************************************)
(* Claims on the resolution of the model                                   *)
(***************************************************************************)
\* C23: a call that finds an identifier memoized returns that identifier
\* without probing, and a memoized identifier is never replaced.
C23_ModelMemoized ==
  /\ [](\A t \in Resolvers :
          resolver[t].memo # None =>
            (resolver[t].probed = << >> /\ resolver[t].ret = resolver[t].memo))
  /\ [][model_name # None => model_name' = model_name]_vars

\* C24: one resolution probes the candidates in list order, each at most
\* once whatever its error; it returns the first candidate whose probe
\* succeeded; when every probe failed it raises and memoizes nothing.
C24_ModelFallback ==
  /\ [](\A t \in Resolvers :
          LET p == resolver[t].probed
          IN /\ Len(p) <= Len(models_to_try)
             /\ \A k \in DOMAIN p : p[k].id = models_to_try[k]
             /\ \A k \in DOMAIN p : p[k].ok => k = Len(p)
             /\ (resolver[t].pc = "returned" /\ p # << >>) =>
                  (p[Len(p)].ok /\ resolver[t].ret = p[Len(p)].id)
             /\ resolver[t].pc = "raised" =>
                  (Len(p) = Len(models_to_try) /\ \A k \in DOMAIN p : ~p[k].ok))
  /\ [][\A t \in Resolvers :
         (resolver[t].pc # "raised" /\ resolver'[t].pc = "raised")
           => model_name' = model_name]_vars

\* two probes failed and the third candidate was resolved
C24_Witness ==
  /\ resolver[1].pc = "returned"
  /\ Len(resolver[1].probed) = 3
  /\ resolver[1].ret = models_to_try[3]
  /\ model_name = models_to_try[3]

(***************************************************************************)
(* Claims on the failure path of answer_query                              *)
(***************************************************************************)
\* C25: a call without language override whose model resolution or
\* generation failed has returned the fixed English message when the query
\* has no Devanagari code point and the fixed Hindi message when it has one.
C25_FailureAnswerInQueryLanguage ==
  (lang_pc = "raised" /\ language = None) =>
    lang_result.answer =
      (IF HasDevanagari(query) THEN "Hindi message" ELSE "English message")

\* C26: no call of answer_query ends with an exception at its caller, and a
\* call whose resolution or generation failed has returned a result tagged
\* quota_exceeded or processing_error.
C26_NoExceptionReachesCaller ==
  aq_pc \in {"returned", "raised"} =>
    /\ escaped = None
    /\ caught # NoError => result \in {"quota_exceeded", "processing_error"}

(***************************************************************************)
(* Claims on the parsing of the extraction                                 *)
(***************************************************************************)
\* the lines of a text that carry the prefix
LinesOf(text, prefix) == {k \in DOMAIN text : StartsWith(SplitLines(text)[k], prefix)}

\* the line of the prefix carries the sentinel
Sentinel(text, prefix) ==
  \A k \in LinesOf(text, prefix) :
    FieldValue(SplitLines(text)[k], prefix) = "Not provided"

ExtractionPrefixes == {"NAME:", "PHONE:", "SUMMARY:", "CLASSIFICATION:"}

\* C27: whatever the model answered, a field whose line is missing or
\* carries 'Not provided' is null, an answer with no recognisable line gives
\* null name, phone and summary and the classification unrelated.
C27_ExtractionParsing ==
  ex_pc = "parsed" =>
       /\ Sentinel(result_text, "NAME:") => extracted.customer_name = None
       /\ Sentinel(result_text, "PHONE:") => extracted.customer_phone = None
       /\ Sentinel(result_text, "SUMMARY:") => extracted.summary = None
       /\ (LinesOf(result_text, "CLASSIFICATION:") # {}
             /\ Sentinel(result_text, "CLASSIFICATION:"))
            => extracted.lead_classification = None
       /\ (\A prefix \in ExtractionPrefixes : LinesOf(result_text, prefix) = {})
            => (/\ extracted.customer_name = None
                /\ extracted.customer_phone = None
                /\ extracted.summary = None
                /\ extracted.lead_classification = "UNRELATED")

(***************************************************************************)
(* Claims on the stored classification and on the extraction tasks         *)
(***************************************************************************)
\* the four names the prompt of extract_lead_info asks for
Classifications == {"HOT_LEAD", "GENERAL_INQUIRY", "SPAM", "UNRELATED"}

\* C28: the lead classification of every stored conversation is null or one
\* of the four names.
C28_ClassificationEnumerated ==
  \A sid \in DOMAIN db : db[sid].lead_classification \in {None} \cup Classifications

\* C29: whenever the extraction a handler started is still running, the
\* handler has already produced its response.
C29_HandlerDoesNotWait ==
  \A r \in Requests :
    task[r].pc \in {"extract", "write", "read", "call"} => req[r].pc = "done"

\* the webhook and save_conversation have answered, their extractions have
\* not made a step
C29_Witness ==
  /\ req[1].kind = "webhook" /\ req[1].pc = "done" /\ task[1].pc = "read"
  /\ req[2].kind = "save" /\ req[2].pc = "done" /\ task[2].pc = "extract"

\* C30: the step in which an extraction task fails changes neither a
\* request, nor the store, nor another task, and the request that started a
\* failed task keeps its successful outcome.
C30_TaskFailureContained ==
  /\ [](\A r \in Requests : task[r].pc = "failed" => req[r].pc = "done")
  /\ [][\A r \in Requests :
         (task[r].pc # "failed" /\ task'[r].pc = "failed") =>
           /\ req' = req
           /\ db' = db
           /\ \A q \in Requests \ {r} : task'[q] = task[q]]_vars

\* the extraction of the first request failed; the second request was
\* served and its extraction wrote its result
C30_Witness ==
  /\ task[1].pc = "failed" /\ req[1].pc = "done"
  /\ req[2].kind = "save" /\ req[2].pc = "done" /\ task[2].pc = "done"

(***************************************************************************)
(* Claims on the conversation rows                                         *)
(***************************************************************************)
\* C31: an extraction started by trigger_lead_extraction that found the
\* messages of its session and is about to call the agent eventually writes
\* its result to the row.
C31_LeadEventuallyStored ==
  \A r \in Requests :
    (req[r].kind \in {"ask", "webhook"} /\ task[r].pc = "call") ~> (task[r].pc = "done")

\* p is a prefix of q
IsPrefix(p, q) == Len(p) <= Len(q) /\ SubSeq(q, 1, Len(p)) = p

\* C32: no save shortens the stored message list of a session or replaces
\* it by an older one: the list before a step is a prefix of the list after.
C32_MessagesAppendOnly ==
  [][\A sid \in DOMAIN db : IsPrefix(db[sid].messages, db'[sid].messages)]_vars

\* C33: the request that creates a conversation gives it its business_id,
\* and no later step changes the business_id of a stored conversation.
C33_TenantFixedAtCreation ==
  [][/\ \A sid \in DOMAIN db :
          sid \in DOMAIN db' /\ db'[sid].business_id = db[sid].business_id
     /\ \A sid \in DOMAIN db' \ DOMAIN db :
          db'[sid].business_id = db'[sid].messages[1].by]_vars

\* a conversation of the second tenant after message saves, an extraction
\* save and an end flag
C33_Witness ==
  /\ SessionId \in DOMAIN db
  /\ db[SessionId].business_id = "acme_motors"
  /\ served = MaxTurns
  /\ db[SessionId].customer_name # None
  /\ db[SessionId].ended_at # None

\* C36: the conversations listed for a tenant hold no message saved by a
\* request of another tenant.
C36_TenantIsolation ==
  \A business_id \in BusinessIds :
    \A row \in GetAllConversations(db, business_id) :
      \A i \in DOMAIN row.messages : row.messages[i].by = business_id

\* C37: a request that found no row for its session and goes on to create
\* one never fails at the creation: after its step the row exists and the
\* request goes on to its message save.
C37_GetOrCreateRaceFree ==
  [][\A r \in Requests :
       (req[r].pc = "create" /\ req'[r].pc # "create") =>
         (req'[r].pc = "update" /\ SessionId \in DOMAIN db')]_vars

\* C34: the message list an extraction works on contains the messages of
\* the turn that triggered it.
C34_ExtractionReadsTurn ==
  \A r \in Requests :
    (req[r].kind \in {"ask", "save"} /\ task[r].pc \in {"call", "write"}) =>
      IsPrefix(req[r].messages, task[r].messages)

(***************************************************************************)
(* Claims on the end-of-call report                                        *)
(***************************************************************************)
\* C35: an extraction is triggered only for a tenant whose configuration
\* stores the assistant identifier of the report; when no configuration
\* stores it, nothing is triggered, no SMS is sent and the answer is 200.
C35_CallCorrelation ==
  hook.pc = "answered" =>
    /\ hook.triggered # 0 => hook_configs[hook.triggered] = hook.assistant_id
    /\ (\A t \in HookTenants : hook_configs[t] # hook.assistant_id) =>
         (hook.triggered = 0 /\ ~hook.sms /\ hook.status = 200)

\* the second tenant's configuration matched, after one that did not
C35_Witness ==
  /\ hook.pc = "answered"
  /\ hook.triggered = 2
  /\ hook.sms
  /\ hook_configs[1] \in AssistantIds
  /\ hook_configs[1] # hook.assistant_id

====
